---- MODULE Spec2Model ----
(***************************************************************************)
(* Model of the binary-XML reader of android-introspection                 *)
(* (web_app/wasm/source/apk/binary_xml.cpp): BinaryXml::readStrings,       *)
(* BinaryXml::getXmlChunkOffset and BinaryXml::traverseXml with its chunk  *)
(* handlers, over concrete little-endian byte buffers.                     *)
(*                                                                         *)
(* Conventions.                                                            *)
(*  - A buffer is a sequence of bytes 0..255; offsets are 0-based as in    *)
(*    the code, so byte k of buffer m is m[k + 1].                         *)
(*  - A 32-bit word is carried as the two's-complement value of its bit    *)
(*    pattern (0xFFFFFFFF is -1).  A uint32_t w is "huge" (>= 2^31) exactly *)
(*    when its pattern is negative; unsigned comparisons are written out.  *)
(*  - Strings are sequences of byte codes (std::string is a byte string).  *)
(*  - The cursor is the code's uint64_t; an offset that has left the       *)
(*    modelled memory is saturated at FarOffset, since every later read    *)
(*    from it is out of memory whatever its exact value.                   *)
(*  - readBytesAtIndex does no bounds check.  A read that ends past        *)
(*    content_.size() is undefined behaviour: it either yields the bytes   *)
(*    that happen to follow the buffer in memory (slack) or, once it       *)
(*    leaves that memory, stops the program (pc = "trap").                 *)
(***************************************************************************)
EXTENDS Integers, Sequences, FiniteSets, TLC

VARIABLES
  input,                   \* ghost: the description the buffer was built from
  content,                 \* BinaryXml::content_
  slack,                   \* the bytes that follow content_ in memory
  pc,                      \* "idle" | "loop" | "done" | "trap" | "set"
  xmlChunkOffset,          \* traverseXml's local; -1 before it is computed
  currentXmlChunkOffset,   \* the read cursor of traverseXml
  tag,                     \* the last tag read by traverseXml
  strings,                 \* the last value readStrings returned
  stringsRead,             \* ghost: readStrings has returned at least once
  events,                  \* the elements dispatched to the visitor, in order
  decoded,                 \* ghost: log of the attribute values decoded
  tagReads,                \* ghost: the offsets at which a tag was read
  cdataHandled,            \* ghost: number of calls of handleCDataTag
  hi,                      \* ghost: highest end offset of any read so far
  poolOob,                 \* ghost: some strings[i] had i >= strings.size()
  mutation                 \* the outcome of set_element_attribute, if called

vars == <<input, content, slack, pc, xmlChunkOffset, currentXmlChunkOffset,
          tag, strings, stringsRead, events, decoded, tagReads, cdataHandled,
          hi, poolOob, mutation>>

----------------------------------------------------------------------------
(* Program constants.                                                      *)

XML_IDENTIFIER == 524291
XML_STRING_TABLE == 1
RES_FLAG_UTF8 == 256
XML_ATTRS_MARKER == 1310740
RES_XML_START_NAMESPACE_TYPE == 256
RES_XML_END_NAMESPACE_TYPE == 257
RES_XML_START_ELEMENT_TYPE == 258
RES_XML_END_ELEMENT_TYPE == 259
RES_XML_CDATA_TYPE == 260
RES_XML_RESOURCE_MAP_TYPE == 384
RES_VALUE_TRUE == -1
RES_VALUE_FALSE == 0
TYPE_NULL == 0
TYPE_REFERENCE == 1
TYPE_ATTRIBUTE == 2
TYPE_STRING == 3
TYPE_FLOAT == 4
TYPE_DIMENSION == 5
TYPE_FRACTION == 6
TYPE_DYNAMIC_REFERENCE == 7
TYPE_INT_DEC == 16
TYPE_INT_HEX == 17
TYPE_INT_BOOLEAN == 18

\* sizeof(BinaryXmlHeader): 4+4+2+2+4+4+4+4+4+4
HeaderSize == 36
\* byte offsets of the header fields the code reads
OffMagic == 0
OffTableId == 8
OffChunkSize == 12
OffNumStrings == 16
OffFlags == 24

\* Saturation value of a cursor that has left the modelled memory.
FarOffset == 1000000

----------------------------------------------------------------------------
(* Little-endian reads: readBytesAtIndex<T>(data, index) for the widths    *)
(* the code uses.  The caller advances the index by the width.             *)

Max(a, b) == IF a >= b THEN a ELSE b
Min(a, b) == IF a <= b THEN a ELSE b

U8At(m, i) == m[i + 1]

U16At(m, i) == m[i + 1] + 256 * m[i + 2]

I32At(m, i) ==
  m[i + 1] + 256 * m[i + 2] + 65536 * m[i + 3]
  + 16777216 * (IF m[i + 4] >= 128 THEN m[i + 4] - 256 ELSE m[i + 4])

\* a cursor plus a byte count, saturated
Adv(off, n) == IF off >= FarOffset \/ n >= FarOffset THEN FarOffset
               ELSE Min(off + n, FarOffset)

\* uint32_t w as an amount added to a 64-bit cursor
U32Amount(w) == IF w < 0 \/ w >= FarOffset THEN FarOffset ELSE w

----------------------------------------------------------------------------
(* Construction of input buffers (the byte layout the reader expects).     *)

LE16(v) == <<v % 256, (v \div 256) % 256>>

LE32(v) == <<v % 256, (v \div 256) % 256, (v \div 65536) % 256,
             (v \div 16777216) % 256>>

RECURSIVE Flatten(_)
Flatten(ss) == IF ss = <<>> THEN <<>> ELSE Head(ss) \o Flatten(Tail(ss))

RECURSIVE Zeros(_)
Zeros(n) == IF n <= 0 THEN <<>> ELSE <<0>> \o Zeros(n - 1)

\* The 36 bytes of a BinaryXmlHeader with the given field values.
EncodeHeader(h) ==
  LE32(h.xmlMagicNumber) \o LE32(0) \o LE16(h.stringTableIdentifier)
  \o LE16(28) \o LE32(h.chunkSize) \o LE32(h.numStrings) \o LE32(0)
  \o LE32(h.flags) \o LE32(h.stringsOffset) \o LE32(0)

\* One UTF-8 pool entry: UTF-16 length byte, UTF-8 length byte, payload, NUL.
EncodeUtf8Entry(e) == <<e.n16, e.n8>> \o e.bytes \o <<0>>

\* One UTF-16 pool entry: unit count, the code units, a NUL unit.
EncodeUtf16Entry(e) ==
  LE16(Len(e.units)) \o Flatten([k \in 1..Len(e.units) |-> LE16(e.units[k])])
  \o <<0, 0>>

EncodeEntry(utf8, e) == IF utf8 THEN EncodeUtf8Entry(e) ELSE EncodeUtf16Entry(e)

\* Entries are laid out in the physical order p.order (a permutation of the
\* indices); EntryOffset is the offset-table value of entry i.
RECURSIVE SumLen(_, _, _)
SumLen(p, k, i) ==
  IF p.order[k] = i THEN 0
  ELSE Len(EncodeEntry(p.utf8, p.entries[p.order[k]])) + SumLen(p, k + 1, i)

EntryOffset(p, i) == SumLen(p, 1, i)

EncodePool(p) ==
  Flatten([i \in 1..Len(p.entries) |-> LE32(EntryOffset(p, i))])
  \o Flatten([k \in 1..Len(p.order) |-> EncodeEntry(p.utf8, p.entries[p.order[k]])])

\* A chunk: the 8-byte preamble (tag, header size, chunk size) and its body.
EncodeChunk(c) == LE16(c.tag) \o LE16(16) \o LE32(c.size) \o c.body


\* One 20-byte attribute record of a start-element chunk.
EncodeAttr(a) ==
  LE32(a.ns) \o LE32(a.name) \o LE32(a.value) \o LE16(8) \o <<0>>
  \o <<a.type>> \o LE32(a.data)

Attr(name, value, type, data) ==
  [ns |-> -1, name |-> name, value |-> value, type |-> type, data |-> data]

MkChunk(t, body, name, attrs) ==
  [tag |-> t, size |-> 8 + Len(body), body |-> body, name |-> name,
   attrs |-> attrs]

\* line number 1, comment index -1: the 8 bytes every handler skips
LineComment == LE32(1) \o LE32(-1)

StartNsChunk ==
  MkChunk(RES_XML_START_NAMESPACE_TYPE, LineComment \o LE32(0) \o LE32(1), -1, <<>>)

EndNsChunk ==
  MkChunk(RES_XML_END_NAMESPACE_TYPE, LineComment \o LE32(0) \o LE32(1), -1, <<>>)

ResMapChunk ==
  MkChunk(RES_XML_RESOURCE_MAP_TYPE, LE32(16842767), -1, <<>>)

StartElemChunk(name, marker, attrs) ==
  MkChunk(RES_XML_START_ELEMENT_TYPE,
          LineComment \o LE32(-1) \o LE32(name) \o LE32(marker)
          \o LE32(Len(attrs)) \o LE32(0)
          \o Flatten([k \in 1..Len(attrs) |-> EncodeAttr(attrs[k])]),
          name, attrs)

EndElemChunk(name) ==
  MkChunk(RES_XML_END_ELEMENT_TYPE, LineComment \o LE32(-1) \o LE32(name),
          name, <<>>)

CDataChunk(text) ==
  MkChunk(RES_XML_CDATA_TYPE,
          LineComment \o LE32(text) \o LE16(8) \o <<0, TYPE_STRING>> \o LE32(text),
          text, <<>>)

UnknownChunk(t, body) == MkChunk(t, body, -1, <<>>)

\* Offset of chunk k of doc when the first chunk is at offset base.
RECURSIVE ChunkOffset(_, _, _)
ChunkOffset(doc, base, k) ==
  IF k = 1 THEN base
  ELSE ChunkOffset(doc, base, k - 1) + Len(EncodeChunk(doc[k - 1]))

----------------------------------------------------------------------------
(* The inputs.  An input is a header, a string pool, a chunk list, the     *)
(* number of bytes kept of the encoded buffer (a truncated file keeps      *)
(* fewer) and the memory that follows the buffer.                          *)

\* A bound on the chunk lists of arbitrary (not necessarily balanced) streams.
MaxChunks == 2
\* A bound on the token lists from which nested documents are built.
MaxTokens == 4

Utf8Entries ==
  << [n16 |-> 1, n8 |-> 1, bytes |-> <<97>>],          \* "a"
     [n16 |-> 2, n8 |-> 2, bytes |-> <<98, 99>>],      \* "bc"
     [n16 |-> 0, n8 |-> 0, bytes |-> <<>>],            \* ""
     [n16 |-> 1, n8 |-> 2, bytes |-> <<195, 169>>] >>  \* U+00E9, two bytes

Utf16Entries ==
  << [units |-> <<97>>],                               \* "a"
     [units |-> <<98, 99>>],                           \* "bc"
     [units |-> <<>>],                                 \* ""
     [units |-> <<233, 8364>>] >>                      \* U+00E9 U+20AC

PoolUtf8 == [utf8 |-> TRUE, entries |-> Utf8Entries, order |-> <<1, 2, 3, 4>>]
PoolUtf8Rev == [utf8 |-> TRUE, entries |-> Utf8Entries, order |-> <<4, 3, 2, 1>>]
PoolUtf16 == [utf8 |-> FALSE, entries |-> Utf16Entries, order |-> <<2, 1, 4, 3>>]
PoolEmpty == [utf8 |-> TRUE, entries |-> <<>>, order |-> <<>>]

\* Offset of the first chunk of the chunk list: just after the pool.
Base(p) == HeaderSize + Len(EncodePool(p))

\* The header an encoder writes for pool p.  chunkSize is the field the
\* reader uses as the start of the chunk stream; lead is 0 when it names the
\* first chunk and 8 when, as in files written by the Android tools, the
\* pool chunk begins 8 bytes into the struct and so ends 8 bytes later.
Header(p, lead) ==
  [xmlMagicNumber |-> XML_IDENTIFIER, stringTableIdentifier |-> XML_STRING_TABLE,
   chunkSize |-> Base(p) - lead, numStrings |-> Len(p.entries),
   flags |-> IF p.utf8 THEN RES_FLAG_UTF8 ELSE 0,
   stringsOffset |-> 28 + 4 * Len(p.entries)]

Encode(h, p, doc) ==
  EncodeHeader(h) \o EncodePool(p)
  \o Flatten([k \in 1..Len(doc) |-> EncodeChunk(doc[k])])

MkInput(h, p, doc, keep, sl) ==
  [hdr |-> h, pool |-> p, doc |-> doc, keep |-> keep, slack |-> sl]

FullInput(h, p, doc, sl) == MkInput(h, p, doc, Len(Encode(h, p, doc)), sl)

BufferOf(inp) == SubSeq(Encode(inp.hdr, inp.pool, inp.doc), 1, inp.keep)

----------------------------------------------------------------------------
(* BinaryXml::getXmlChunkOffset and BinaryXml::readStrings.                *)
(* Results carry st ("ok", "trap": a read left the memory, "throw": an     *)
(* exception left the function) and hi, the end offset of the furthest     *)
(* read, next to the value computed.                                       *)

\* Mutant of GetXmlChunkOffset: the size test is strict, so a chunkSize equal
\* to the buffer length is accepted.
GetXmlChunkOffsetStrict(m, size) ==
  IF Len(m) < OffMagic + 4
    THEN [st |-> "trap", hi |-> OffMagic + 4, value |-> 0]
  ELSE IF I32At(m, OffMagic) # XML_IDENTIFIER
    THEN [st |-> "ok", hi |-> OffMagic + 4, value |-> 0]
  ELSE IF Len(m) < OffTableId + 2
    THEN [st |-> "trap", hi |-> OffTableId + 2, value |-> 0]
  ELSE IF U16At(m, OffTableId) # XML_STRING_TABLE
    THEN [st |-> "ok", hi |-> OffTableId + 2, value |-> 0]
  ELSE IF Len(m) < OffChunkSize + 4
    THEN [st |-> "trap", hi |-> OffChunkSize + 4, value |-> 0]
  ELSE LET chunkSize == I32At(m, OffChunkSize) IN
    IF chunkSize < 0 \/ size < chunkSize
      THEN [st |-> "ok", hi |-> OffChunkSize + 4, value |-> 0]
      ELSE [st |-> "ok", hi |-> OffChunkSize + 4,
            value |-> size - (size - chunkSize)]

\* getXmlChunkOffset on memory m holding a buffer of size bytes.  The header
\* fields are read through a BinaryXmlHeader pointer at content_.data().
GetXmlChunkOffset(m, size) ==
  IF Len(m) < OffMagic + 4
    THEN [st |-> "trap", hi |-> OffMagic + 4, value |-> 0]
  ELSE IF I32At(m, OffMagic) # XML_IDENTIFIER
    THEN [st |-> "ok", hi |-> OffMagic + 4, value |-> 0]
  ELSE IF Len(m) < OffTableId + 2
    THEN [st |-> "trap", hi |-> OffTableId + 2, value |-> 0]
  ELSE IF U16At(m, OffTableId) # XML_STRING_TABLE
    THEN [st |-> "ok", hi |-> OffTableId + 2, value |-> 0]
  ELSE IF Len(m) < OffChunkSize + 4
    THEN [st |-> "trap", hi |-> OffChunkSize + 4, value |-> 0]
  ELSE LET chunkSize == I32At(m, OffChunkSize) IN
    \* content_.size() <= xmlHeader->chunkSize, unsigned
    IF chunkSize < 0 \/ size <= chunkSize
      THEN [st |-> "ok", hi |-> OffChunkSize + 4, value |-> 0]
      ELSE [st |-> "ok", hi |-> OffChunkSize + 4,
            value |-> size - (size - chunkSize)]

\* std::wstring_convert<std::codecvt_utf8_utf16<char16_t>>::to_bytes: UTF-16
\* code units to UTF-8 bytes; a surrogate pair gives four bytes, an unpaired
\* surrogate throws std::range_error.
IsHighSurrogate(u) == u >= 55296 /\ u <= 56319
IsLowSurrogate(u) == u >= 56320 /\ u <= 57343

Utf8OfCodePoint(c) ==
  IF c < 128 THEN <<c>>
  ELSE IF c < 2048 THEN <<192 + (c \div 64), 128 + (c % 64)>>
  ELSE IF c < 65536
    THEN <<224 + (c \div 4096), 128 + ((c \div 64) % 64), 128 + (c % 64)>>
  ELSE <<240 + (c \div 262144), 128 + ((c \div 4096) % 64),
         128 + ((c \div 64) % 64), 128 + (c % 64)>>

RECURSIVE ToBytes(_)
ToBytes(units) ==
  IF units = <<>> THEN [st |-> "ok", bytes |-> <<>>]
  ELSE LET u == Head(units) IN
    IF IsHighSurrogate(u) /\ Len(units) >= 2 /\ IsLowSurrogate(units[2])
      THEN LET rest == ToBytes(Tail(Tail(units)))
               c == 65536 + (u - 55296) * 1024 + (units[2] - 56320)
           IN [st |-> rest.st, bytes |-> Utf8OfCodePoint(c) \o rest.bytes]
    ELSE IF IsHighSurrogate(u) \/ IsLowSurrogate(u)
      THEN [st |-> "throw", bytes |-> <<>>]
    ELSE LET rest == ToBytes(Tail(units))
         IN [st |-> rest.st, bytes |-> Utf8OfCodePoint(u) \o rest.bytes]

\* The UTF-8 branch of the decode loop for the entry at pos: the length is
\* the byte at pos, the payload starts at pos + 2.
DecodeUtf8At(m, pos) ==
  IF pos + 1 > Len(m) THEN [st |-> "trap", hi |-> pos + 1, str |-> <<>>]
  ELSE LET stringLength == U8At(m, pos) IN
    IF stringLength = 0 THEN [st |-> "ok", hi |-> pos + 1, str |-> <<>>]
    ELSE IF pos + 2 + stringLength > Len(m)
      THEN [st |-> "trap", hi |-> pos + 2 + stringLength, str |-> <<>>]
    ELSE [st |-> "ok", hi |-> pos + 2 + stringLength,
          str |-> SubSeq(m, pos + 3, pos + 2 + stringLength)]

\* The UTF-16 branch: a 16-bit unit count at pos, the units from pos + 2.
DecodeUtf16At(m, pos) ==
  IF pos + 2 > Len(m) THEN [st |-> "trap", hi |-> pos + 2, str |-> <<>>]
  ELSE LET stringLength == U16At(m, pos) IN
    IF stringLength = 0 THEN [st |-> "ok", hi |-> pos + 2, str |-> <<>>]
    ELSE IF pos + 2 + 2 * stringLength > Len(m)
      THEN [st |-> "trap", hi |-> pos + 2 + 2 * stringLength, str |-> <<>>]
    ELSE LET conv == ToBytes([k \in 1..stringLength |->
                                U16At(m, pos + 2 + 2 * (k - 1))])
         IN [st |-> conv.st, hi |-> pos + 2 + 2 * stringLength,
             str |-> conv.bytes]

\* Mutant of EntryPos: the string data is taken to start right after the
\* header, the size of the offset table being forgotten.
EntryPosNoTable(m, startStringsOffset, offset) ==
  IF offset < 0 \/ offset > Len(m) THEN FarOffset ELSE HeaderSize + offset

\* The position of the entry with offset-table value offset (a uint32_t).
EntryPos(m, startStringsOffset, offset) ==
  IF offset < 0 \/ offset > Len(m) THEN FarOffset
  ELSE startStringsOffset + offset

DecodeAt(m, isUtf8Encoded, pos) ==
  IF isUtf8Encoded THEN DecodeUtf8At(m, pos) ELSE DecodeUtf16At(m, pos)

\* for (auto &offset : stringOffsets) { ... strings.push_back(...) }
RECURSIVE DecodeAll(_, _, _, _, _)
DecodeAll(m, isUtf8Encoded, startStringsOffset, stringOffsets, acc) ==
  IF stringOffsets = <<>> \/ acc.st # "ok" THEN acc
  ELSE LET d == DecodeAt(m, isUtf8Encoded,
                         EntryPos(m, startStringsOffset, Head(stringOffsets)))
       IN DecodeAll(m, isUtf8Encoded, startStringsOffset, Tail(stringOffsets),
                    [st |-> d.st, hi |-> Max(acc.hi, d.hi),
                     strs |-> IF d.st = "ok" THEN Append(acc.strs, d.str)
                              ELSE acc.strs])

ReadStrings(m) ==
  IF Len(m) < OffMagic + 4
    THEN [st |-> "trap", hi |-> OffMagic + 4, strs |-> <<>>]
  ELSE IF I32At(m, OffMagic) # XML_IDENTIFIER
    THEN [st |-> "ok", hi |-> OffMagic + 4, strs |-> <<>>]
  ELSE IF Len(m) < OffTableId + 2
    THEN [st |-> "trap", hi |-> OffTableId + 2, strs |-> <<>>]
  ELSE IF U16At(m, OffTableId) # XML_STRING_TABLE
    THEN [st |-> "ok", hi |-> OffTableId + 2, strs |-> <<>>]
  ELSE IF Len(m) < OffNumStrings + 4
    THEN [st |-> "trap", hi |-> OffNumStrings + 4, strs |-> <<>>]
  ELSE LET numStrings == I32At(m, OffNumStrings) IN
    \* the offset-table loop reads 4 bytes at sizeof(header) + 4 i, i < numStrings
    IF numStrings < 0 \/ numStrings > Len(m)
       \/ (numStrings > 0 /\ HeaderSize + 4 * numStrings > Len(m))
      THEN [st |-> "trap",
            hi |-> HeaderSize + 4 * (Max(Len(m) - HeaderSize, 0) \div 4 + 1),
            strs |-> <<>>]
    ELSE IF Len(m) < OffFlags + 4
      THEN [st |-> "trap", hi |-> OffFlags + 4, strs |-> <<>>]
    ELSE LET stringOffsets == [i \in 1..numStrings |->
                                 I32At(m, HeaderSize + 4 * (i - 1))]
             startStringsOffset == HeaderSize + 4 * numStrings
             flags == I32At(m, OffFlags)
             isUtf8Encoded == (flags \div RES_FLAG_UTF8) % 2 = 1
         IN DecodeAll(m, isUtf8Encoded, startStringsOffset, stringOffsets,
                      [st |-> "ok",
                       hi |-> IF numStrings > 0 THEN startStringsOffset
                              ELSE OffFlags + 4,
                       strs |-> <<>>])

----------------------------------------------------------------------------
(* Attribute decoding: the switch of handleAttributes.                     *)

\* strings[i] for a uint32_t i.  std::vector::operator[] does no bounds
\* check: an index >= strings.size() is undefined behaviour, which either
\* stops the program (ub.crash) or yields whatever bytes are there (ub.str).
Lookup(strs, i, ub) ==
  IF i >= 0 /\ i < Len(strs)
    THEN [st |-> "ok", oob |-> FALSE, str |-> strs[i + 1]]
    ELSE [st |-> IF ub.crash THEN "trap" ELSE "ok", oob |-> TRUE,
          str |-> ub.str]

\* index >= 0 ? strings[static_cast<uint32_t>(index)] : ""  (int32_t index)
LookupSigned(strs, i, ub) ==
  IF i >= 0 THEN Lookup(strs, i, ub)
  ELSE [st |-> "ok", oob |-> FALSE, str |-> <<>>]

HexDigit(d) == IF d < 10 THEN 48 + d ELSE 55 + d

\* "%08X" of the 32-bit pattern v
Hex8(v) ==
  << HexDigit((v \div 268435456) % 16), HexDigit((v \div 16777216) % 16),
     HexDigit((v \div 1048576) % 16), HexDigit((v \div 65536) % 16),
     HexDigit((v \div 4096) % 16), HexDigit((v \div 256) % 16),
     HexDigit((v \div 16) % 16), HexDigit(v % 16) >>

RECURSIVE DecDigits(_)
DecDigits(n) ==
  IF n < 10 THEN <<48 + n>> ELSE DecDigits(n \div 10) \o <<48 + (n % 10)>>

\* "%d" of the 32-bit pattern v: printf reads the argument as an int
Dec(v) ==
  IF v >= 0 THEN DecDigits(v)
  ELSE LET u == -(v + 1) IN          \* |v| = u + 1, without overflow
    IF u % 10 = 9 THEN <<45>> \o DecDigits(u \div 10 + 1) \o <<48>>
    ELSE IF u < 10 THEN <<45, 48 + u + 1>>
    ELSE <<45>> \o DecDigits(u \div 10) \o <<48 + (u % 10) + 1>>

StrUndefined == <<60, 117, 110, 100, 101, 102, 105, 110, 101, 100, 62>>
StrEmpty == <<60, 101, 109, 112, 116, 121, 62>>
StrRes == <<64, 114, 101, 115, 47, 48, 120>>
StrAttr == <<64, 97, 116, 116, 114, 47, 48, 120>>
StrDyn == <<64, 100, 121, 110, 47, 48, 120>>
Str0x == <<48, 120>>
StrTrue == <<116, 114, 117, 101>>
StrFalse == <<102, 97, 108, 115, 101>>
StrUnknown == <<117, 110, 107, 110, 111, 119, 110>>

Plain(str) == [st |-> "ok", oob |-> FALSE, str |-> str]

\* Mutant of AttributeValue: INT_BOOLEAN renders every nonzero raw value as
\* "true".
AttributeValueBoolNonZero(attributeValueType, attributeResourceId, attributeValueIndex, strs, ub) ==
  IF attributeValueType = TYPE_STRING THEN Lookup(strs, attributeValueIndex, ub)
  ELSE IF attributeValueType = TYPE_INT_BOOLEAN
    THEN Plain(IF attributeResourceId = 0 THEN StrFalse ELSE StrTrue)
  ELSE IF attributeValueType = TYPE_NULL
    THEN Plain(IF attributeResourceId = 0 THEN StrUndefined ELSE StrEmpty)
  ELSE IF attributeValueType = TYPE_REFERENCE
    THEN Plain(StrRes \o Hex8(attributeResourceId))
  ELSE IF attributeValueType = TYPE_ATTRIBUTE
    THEN Plain(StrAttr \o Hex8(attributeResourceId))
  ELSE IF attributeValueType = TYPE_DYNAMIC_REFERENCE
    THEN Plain(StrDyn \o Hex8(attributeResourceId))
  ELSE IF attributeValueType \in {TYPE_FLOAT, TYPE_DIMENSION, TYPE_FRACTION}
    THEN Plain(<<>>)
  ELSE IF attributeValueType = TYPE_INT_DEC THEN Plain(Dec(attributeResourceId))
  ELSE IF attributeValueType = TYPE_INT_HEX
    THEN Plain(Str0x \o Hex8(attributeResourceId))
  ELSE Plain(StrUnknown)

\* switch (attributeValueType) { ... }
AttributeValue(attributeValueType, attributeResourceId, attributeValueIndex, strs, ub) ==
  CASE attributeValueType = TYPE_NULL ->
         Plain(IF attributeResourceId = 0 THEN StrUndefined ELSE StrEmpty)
    [] attributeValueType = TYPE_REFERENCE ->
         Plain(StrRes \o Hex8(attributeResourceId))
    [] attributeValueType = TYPE_ATTRIBUTE ->
         Plain(StrAttr \o Hex8(attributeResourceId))
    [] attributeValueType = TYPE_STRING ->
         Lookup(strs, attributeValueIndex, ub)
    [] attributeValueType = TYPE_FLOAT -> Plain(<<>>)
    [] attributeValueType = TYPE_DIMENSION -> Plain(<<>>)
    [] attributeValueType = TYPE_FRACTION -> Plain(<<>>)
    [] attributeValueType = TYPE_DYNAMIC_REFERENCE ->
         Plain(StrDyn \o Hex8(attributeResourceId))
    [] attributeValueType = TYPE_INT_DEC -> Plain(Dec(attributeResourceId))
    [] attributeValueType = TYPE_INT_HEX ->
         Plain(Str0x \o Hex8(attributeResourceId))
    [] attributeValueType = TYPE_INT_BOOLEAN ->
         Plain(IF attributeResourceId = RES_VALUE_TRUE THEN StrTrue
               ELSE IF attributeResourceId = RES_VALUE_FALSE THEN StrFalse
               ELSE StrUnknown)
    [] OTHER -> Plain(StrUnknown)

\* The end offset of the first of consecutive reads, with the given end
\* offsets relative to off, that does not fit in memory m.
FirstMiss(m, off, ends) ==
  LET k == CHOOSE j \in 1..Len(ends) :
             /\ Adv(off, ends[j]) > Len(m)
             /\ \A l \in 1..(j - 1) : Adv(off, ends[l]) <= Len(m)
  IN Adv(off, ends[k])

Fits(m, off, n) == Adv(off, n) <= Len(m)

\* for (auto i = 0U; i < attributesCount; i++) { ... }
RECURSIVE AttrLoop(_, _, _, _, _, _, _)
AttrLoop(m, strs, off, i, attributesCount, ub, acc) ==
  IF ~(attributesCount < 0 \/ i < attributesCount) THEN [acc EXCEPT !.off = off]
  ELSE IF ~Fits(m, off, 20)
    THEN [acc EXCEPT !.st = "trap",
                     !.hi = FirstMiss(m, off, <<4, 8, 12, 14, 15, 16, 20>>)]
  ELSE LET attributeNameIndex == I32At(m, off + 4)
           attributeValueIndex == I32At(m, off + 8)
           attributeValueType == U8At(m, off + 15)
           attributeResourceId == I32At(m, off + 16)
           attributeName == Lookup(strs, attributeNameIndex, ub)
           attributeValue == AttributeValue(attributeValueType,
                               attributeResourceId, attributeValueIndex, strs, ub)
           read == [acc EXCEPT !.hi = off + 20, !.off = off + 20,
                               !.oob = acc.oob \/ attributeName.oob]
       IN IF attributeName.st # "ok" THEN [read EXCEPT !.st = attributeName.st]
          ELSE IF attributeName.str = <<>>
            THEN AttrLoop(m, strs, off + 20, i + 1, attributesCount, ub, read)
          ELSE IF attributeValue.st # "ok"
            THEN [read EXCEPT !.st = attributeValue.st, !.oob = TRUE]
          ELSE AttrLoop(m, strs, off + 20, i + 1, attributesCount, ub,
                 [read EXCEPT
                    !.oob = read.oob \/ attributeValue.oob,
                    !.attributes = (attributeName.str :> attributeValue.str)
                                   @@ read.attributes,
                    !.dec = Append(read.dec,
                              [type |-> attributeValueType,
                               raw |-> attributeResourceId,
                               valueIndex |-> attributeValueIndex,
                               name |-> attributeName.str,
                               oob |-> attributeValue.oob,
                               value |-> attributeValue.str])])

\* handleAttributes(contents, strings, contentsOffset)
HandleAttributes(m, strs, off, ub) ==
  LET none == [st |-> "ok", hi |-> off, off |-> off, oob |-> FALSE,
               attributes |-> <<>>, dec |-> <<>>]
  IN IF ~Fits(m, off, 4)
       THEN [none EXCEPT !.st = "trap", !.hi = Adv(off, 4)]
     ELSE IF I32At(m, off) # XML_ATTRS_MARKER
       THEN [none EXCEPT !.hi = off + 4, !.off = off + 4]
     ELSE IF ~Fits(m, off, 12)
       THEN [none EXCEPT !.st = "trap", !.hi = FirstMiss(m, off, <<8, 12>>)]
     ELSE AttrLoop(m, strs, off + 12, 0, I32At(m, off + 4), ub,
                   [none EXCEPT !.hi = off + 12, !.off = off + 12])

----------------------------------------------------------------------------
(* The chunk handlers.  A handler result holds st, hi, the cursor off it   *)
(* leaves, oob (a strings[i] out of range happened), the elements evs it   *)
(* passed to the visitor, the attribute values dec it decoded and cdata,   *)
(* the number of handleCDataTag calls.  Every element records at, the      *)
(* offset of the tag of the chunk being handled (ghost).                   *)

StartXmlTagElement(name, attributes, at) ==
  [kind |-> "Start", name |-> name, attributes |-> attributes,
   reason |-> "", at |-> at]

EndXmlTagElement(name, at) ==
  [kind |-> "End", name |-> name, attributes |-> <<>>, reason |-> "", at |-> at]

CDataTagElement(text, at) ==
  [kind |-> "CData", name |-> text, attributes |-> <<>>, reason |-> "", at |-> at]

InvalidXmlTagElement(reason, at) ==
  [kind |-> "Invalid", name |-> <<>>, attributes |-> <<>>, reason |-> reason,
   at |-> at]

Result(st, hiEnd, off, oob) ==
  [st |-> st, hi |-> hiEnd, off |-> off, oob |-> oob, evs |-> <<>>,
   dec |-> <<>>, cdata |-> 0]

\* the two string lookups shared by the start- and end-element handlers:
\* 8 bytes skipped, namespace index, namespace string, name index, name string
ReadNames(m, strs, off, ub) ==
  IF ~Fits(m, off, 12)
    THEN [st |-> "trap", hi |-> FirstMiss(m, off, <<4, 8, 12>>), oob |-> FALSE,
          ns |-> <<>>, str |-> <<>>]
  ELSE LET namespaceString == LookupSigned(strs, I32At(m, off + 8), ub) IN
    IF namespaceString.st # "ok"
      THEN [st |-> namespaceString.st, hi |-> off + 12, oob |-> TRUE,
            ns |-> <<>>, str |-> <<>>]
    ELSE IF ~Fits(m, off, 16)
      THEN [st |-> "trap", hi |-> Adv(off, 16), oob |-> namespaceString.oob,
            ns |-> namespaceString.str, str |-> <<>>]
    ELSE LET string == LookupSigned(strs, I32At(m, off + 12), ub) IN
      [st |-> string.st, hi |-> off + 16,
       oob |-> namespaceString.oob \/ string.oob,
       ns |-> namespaceString.str, str |-> string.str]

\* handleStartElementTag(contents, strings, contentsOffset, visitor)
HandleStartElementTag(m, strs, off, ub, at) ==
  LET names == ReadNames(m, strs, off, ub) IN
  IF names.st # "ok" THEN Result(names.st, names.hi, off, names.oob)
  ELSE LET a == HandleAttributes(m, strs, off + 16, ub) IN
    [st |-> a.st, hi |-> a.hi, off |-> a.off, oob |-> names.oob \/ a.oob,
     evs |-> IF a.st = "ok"
             THEN <<StartXmlTagElement(names.str, a.attributes, at)>>
             ELSE <<>>,
     dec |-> a.dec, cdata |-> 0]

\* Mutant of HandleEndElementTag: the namespace string is passed to the
\* End element in place of the name.
HandleEndElementTagNamespace(m, strs, off, ub, at) ==
  LET names == ReadNames(m, strs, off, ub) IN
  IF names.st # "ok" THEN Result(names.st, names.hi, off, names.oob)
  ELSE [Result("ok", off + 16, off + 16, names.oob)
          EXCEPT !.evs = <<EndXmlTagElement(names.ns, at)>>]

\* handleEndElementTag(contents, strings, contentsOffset, visitor)
HandleEndElementTag(m, strs, off, ub, at) ==
  LET names == ReadNames(m, strs, off, ub) IN
  IF names.st # "ok" THEN Result(names.st, names.hi, off, names.oob)
  ELSE [Result("ok", off + 16, off + 16, names.oob)
          EXCEPT !.evs = <<EndXmlTagElement(names.str, at)>>]

\* handleCDataTag(contents, strings, contentsOffset): it has no visitor
\* parameter and only logs the string.
HandleCDataTag(m, strs, off, ub, at) ==
  IF ~Fits(m, off, 12)
    THEN [Result("trap", FirstMiss(m, off, <<4, 8, 12>>), off, FALSE)
            EXCEPT !.cdata = 1]
  ELSE LET string == Lookup(strs, I32At(m, off + 8), ub) IN
    IF string.st # "ok"
      THEN [Result(string.st, off + 12, off, TRUE) EXCEPT !.cdata = 1]
    ELSE IF ~Fits(m, off, 20)
      THEN [Result("trap", FirstMiss(m, off, <<16, 20>>), off, string.oob)
              EXCEPT !.cdata = 1]
    ELSE [Result("ok", off + 20, off + 20, string.oob) EXCEPT !.cdata = 1]

\* currentXmlChunkOffset += chunkSize - 8; the subtraction is done in
\* uint32_t, so a chunkSize below 8 adds an amount of about 2^32.
SkipChunk(off, chunkSize) ==
  Result("ok", off,
         Adv(off, IF chunkSize < 8 THEN FarOffset ELSE U32Amount(chunkSize - 8)),
         FALSE)

\* default: the tag is logged and nothing is consumed
UnknownTag(off) == Result("ok", off, off, FALSE)

----------------------------------------------------------------------------
(* The input sets.                                                         *)

SeqsUpTo(S, n) == UNION {[1..k -> S] : k \in 0..n}

\* the memory after the buffer: nothing mapped, two bytes that read as an
\* end-namespace tag, or zeros followed by such a tag
Slacks == {<<>>, <<1, 1>>, Zeros(8) \o <<1, 1>>}

\* the outcomes of an out-of-range strings[i]
Ubs == {[crash |-> TRUE, str |-> <<>>], [crash |-> FALSE, str |-> <<>>],
        [crash |-> FALSE, str |-> <<63>>]}

StringAttr == Attr(0, 1, TYPE_STRING, 1)

\* chunks of arbitrary streams, well-formed and malformed
ChunkKinds ==
  { StartNsChunk, EndNsChunk, ResMapChunk,
    StartElemChunk(0, XML_ATTRS_MARKER, <<>>),
    StartElemChunk(1, XML_ATTRS_MARKER, <<StringAttr>>),
    StartElemChunk(9, XML_ATTRS_MARKER, <<>>),
    StartElemChunk(0, 0, <<StringAttr>>),
    StartElemChunk(0, XML_ATTRS_MARKER, <<Attr(9, 0, TYPE_STRING, 0)>>),
    StartElemChunk(0, XML_ATTRS_MARKER, <<Attr(0, -1, TYPE_STRING, -1)>>),
    EndElemChunk(0), EndElemChunk(1), EndElemChunk(9),
    CDataChunk(1), CDataChunk(-1),
    UnknownChunk(512, <<>>), UnknownChunk(512, Zeros(8)),
    [StartNsChunk EXCEPT !.size = 0] }

StreamInputs ==
  { FullInput(Header(PoolUtf8, 0), PoolUtf8, doc, sl) :
      doc \in SeqsUpTo(ChunkKinds, MaxChunks), sl \in Slacks }

\* Nested documents, from token lists: "o0" and "o1" open an element named
\* by pool string 0 or 1, "c" closes the innermost open element, "t" is text.
Tokens == {"o0", "o1", "c", "t"}

RECURSIVE Balanced(_, _)
Balanced(toks, depth) ==
  IF toks = <<>> THEN depth = 0
  ELSE IF Head(toks) = "c" THEN depth > 0 /\ Balanced(Tail(toks), depth - 1)
  ELSE IF Head(toks) = "t" THEN Balanced(Tail(toks), depth)
  ELSE Balanced(Tail(toks), depth + 1)

RECURSIVE DocOf(_, _)
DocOf(toks, stack) ==
  IF toks = <<>> THEN <<>>
  ELSE LET t == Head(toks) IN
    IF t = "o0"
      THEN <<StartElemChunk(0, XML_ATTRS_MARKER, <<>>)>>
           \o DocOf(Tail(toks), <<0>> \o stack)
    ELSE IF t = "o1"
      THEN <<StartElemChunk(1, XML_ATTRS_MARKER, <<StringAttr>>)>>
           \o DocOf(Tail(toks), <<1>> \o stack)
    ELSE IF t = "c"
      THEN <<EndElemChunk(Head(stack))>> \o DocOf(Tail(toks), Tail(stack))
    ELSE <<CDataChunk(1)>> \o DocOf(Tail(toks), stack)

NestedDocs ==
  { pre \o DocOf(toks, <<>>) \o <<EndNsChunk>> :
      pre \in {<<StartNsChunk>>, <<ResMapChunk, StartNsChunk>>},
      toks \in {t \in SeqsUpTo(Tokens, MaxTokens) : Balanced(t, 0)} }

NestedInputs ==
  { FullInput(Header(p, lead), p, doc, <<>>) :
      p \in {PoolUtf8, PoolUtf16}, lead \in {0, 8}, doc \in NestedDocs }

\* Headers: the encoder's header and damaged ones, on whole and cut buffers.
SmallDoc == <<StartNsChunk, StartElemChunk(1, XML_ATTRS_MARKER, <<StringAttr>>),
              EndElemChunk(1), EndNsChunk>>

HeaderVariants(p, doc) ==
  LET h == Header(p, 0)
      n == Len(Encode(h, p, doc))
  IN { h,
       [h EXCEPT !.xmlMagicNumber = XML_IDENTIFIER + 1],
       [h EXCEPT !.stringTableIdentifier = 2],
       [h EXCEPT !.chunkSize = 0],
       [h EXCEPT !.chunkSize = n],
       [h EXCEPT !.chunkSize = n - 1],
       [h EXCEPT !.chunkSize = n + 1],
       [h EXCEPT !.chunkSize = -1],
       [h EXCEPT !.numStrings = h.numStrings + 1],
       [h EXCEPT !.numStrings = -1],
       [h EXCEPT !.flags = RES_FLAG_UTF8 - h.flags] }

HeaderInputs ==
  UNION { { MkInput(h, p, doc, keep, sl) :
              h \in HeaderVariants(p, doc),
              keep \in {Len(Encode(Header(p, 0), p, doc)), Base(p) - 3, 9},
              sl \in {<<>>, Zeros(8) \o <<1, 1>>} } :
          p \in {PoolUtf8, PoolUtf8Rev, PoolUtf16, PoolEmpty},
          doc \in {<<>>, SmallDoc} }

\* Attribute values: one element whose attributes range over type tags, raw
\* values and value-string indices.
TypeTags == {TYPE_NULL, TYPE_REFERENCE, TYPE_ATTRIBUTE, TYPE_STRING, TYPE_FLOAT,
             TYPE_DIMENSION, TYPE_FRACTION, TYPE_DYNAMIC_REFERENCE, TYPE_INT_DEC,
             TYPE_INT_HEX, TYPE_INT_BOOLEAN, 8, 28, 255}

RawValues == {0, 1, -1, 10, -10, 2130771968, 305441741, 2147483647,
              -2147483647 - 1}

ValueIndices == {0, 3, -1}

AttrDoc(attrs) ==
  <<StartNsChunk, StartElemChunk(0, XML_ATTRS_MARKER, attrs), EndElemChunk(0),
    EndNsChunk>>

AttrInputs ==
  { FullInput(Header(PoolUtf8, 0), PoolUtf8, AttrDoc(attrs), <<>>) :
      attrs \in { <<Attr(1, vi, ty, raw)>> :
                    vi \in ValueIndices, ty \in TypeTags, raw \in RawValues }
                \cup { <<Attr(0, 0, TYPE_INT_DEC, 7), Attr(2, 0, TYPE_INT_HEX, 7),
                         Attr(0, 1, TYPE_STRING, 1)>> } }

Inputs == StreamInputs \cup NestedInputs \cup HeaderInputs \cup AttrInputs

----------------------------------------------------------------------------
(* The mutator, set_element_attribute(path, name, new_value).  The sources *)
(* hold its caller (ApkImpl::makeDebuggable) and the declaration of the    *)
(* attribute-setter visitor, not its body: it is modelled from the design  *)
(* of the string pool's raw_slot, of the attribute setter and of the       *)
(* mutator (sections 4.2, 4.4 and 4.6 of the specification).               *)

NoMutation ==
  [result |-> "none", located |-> FALSE, slot |-> FALSE, slotLen |-> 0,
   newLen |-> 0]

\* raw_slot(i): the extent of the payload of pool entry i in buffer m, its
\* length prefix and terminator excluded.  UTF-8: two length bytes, the
\* second being the byte count; UTF-16: a 16-bit unit count, two bytes a unit.
RawSlot(m, i) ==
  LET none == [ok |-> FALSE, off |-> 0, len |-> 0] IN
  IF ~Fits(m, 0, HeaderSize) THEN none
  ELSE LET numStrings == I32At(m, OffNumStrings)
           isUtf8Encoded == (I32At(m, OffFlags) \div RES_FLAG_UTF8) % 2 = 1
       IN IF ~(i >= 0 /\ i < numStrings) \/ ~Fits(m, HeaderSize + 4 * i, 4)
            THEN none
          ELSE LET offset == I32At(m, HeaderSize + 4 * i)
                   pos == HeaderSize + 4 * numStrings + offset
               IN IF offset < 0 \/ ~Fits(m, pos, 2) THEN none
                  ELSE LET len == IF isUtf8Encoded THEN U8At(m, pos + 1)
                                  ELSE 2 * U16At(m, pos)
                       IN [ok |-> Fits(m, pos + 2, len), off |-> pos + 2,
                           len |-> len]

\* encode(new_value, encoding) for a value of ASCII characters
EncodeValue(value, isUtf8Encoded) ==
  IF isUtf8Encoded THEN value
  ELSE Flatten([k \in 1..Len(value) |-> LE16(value[k])])

\* The attribute setter over the elements evs of a traversal: a stack of the
\* open element names (outermost first), pushed on Start and popped on End.
\* The index of the first Start element at which the stack equals path and
\* the element has the attribute name; 0 if there is none.
RECURSIVE Locate(_, _, _, _, _)
Locate(evs, k, stack, path, name) ==
  IF k > Len(evs) THEN 0
  ELSE LET e == evs[k] IN
    IF e.kind = "Start"
      THEN IF Append(stack, e.name) = path /\ name \in DOMAIN e.attributes
             THEN k
           ELSE Locate(evs, k + 1, Append(stack, e.name), path, name)
    ELSE IF e.kind = "End"
      THEN Locate(evs, k + 1,
                  IF stack = <<>> THEN <<>> ELSE SubSeq(stack, 1, Len(stack) - 1),
                  path, name)
    ELSE Locate(evs, k + 1, stack, path, name)

\* The raw-value-string index of the attribute called name of the
\* start-element chunk whose tag is at offset at: the last record of that
\* name, the one whose value the attribute map holds; -1 if there is none.
ValueIndexOf(m, strs, at, name) ==
  IF ~Fits(m, at, 36) THEN -1
  ELSE LET js == {j \in 1..Max(I32At(m, at + 28), 0) :
                    /\ Fits(m, at + 36 + 20 * (j - 1), 20)
                    /\ LET ni == I32At(m, at + 36 + 20 * (j - 1) + 4)
                       IN ni >= 0 /\ ni < Len(strs) /\ strs[ni + 1] = name}
       IN IF js = {} THEN -1
          ELSE LET j == CHOOSE x \in js : \A y \in js : y <= x
               IN I32At(m, at + 36 + 20 * (j - 1) + 8)

\* Mutant of Rewrite: a replacement of another length is written as far as
\* the slot reaches and reported as a success.
RewriteTruncating(m, slot, enc) ==
  LET n == Min(Len(enc), slot.len) IN
  [result |-> "Ok",
   content |-> SubSeq(m, 1, slot.off) \o SubSeq(enc, 1, n)
               \o SubSeq(m, slot.off + n + 1, Len(m))]

\* The write: only a replacement that encodes to the length of the slot is
\* written over it; the length prefix and the terminator are not touched.
Rewrite(m, slot, enc) ==
  IF Len(enc) # slot.len THEN [result |-> "UnsupportedMutation", content |-> m]
  ELSE [result |-> "Ok",
        content |-> SubSeq(m, 1, slot.off) \o enc
                    \o SubSeq(m, slot.off + slot.len + 1, Len(m))]

\* set_element_attribute on buffer m after a traversal that decoded strs and
\* dispatched evs.
SetAttribute(m, strs, evs, path, name, value) ==
  LET k == Locate(evs, 1, <<>>, path, name) IN
  IF k = 0
    THEN [result |-> "MissingElement", content |-> m,
          outcome |-> [NoMutation EXCEPT !.result = "MissingElement"]]
  ELSE LET slot == RawSlot(m, ValueIndexOf(m, strs, evs[k].at, name))
           enc == EncodeValue(value,
                    (I32At(m, OffFlags) \div RES_FLAG_UTF8) % 2 = 1)
       IN IF ~slot.ok
            THEN [result |-> "MalformedChunk", content |-> m,
                  outcome |-> [NoMutation EXCEPT !.result = "MalformedChunk",
                                                 !.located = TRUE]]
          ELSE LET w == Rewrite(m, slot, enc) IN
            [result |-> w.result, content |-> w.content,
             outcome |-> [result |-> w.result, located |-> TRUE, slot |-> TRUE,
                          slotLen |-> slot.len, newLen |-> Len(enc)]]

\* The calls tried.  The buffers: those of a chunk list framed as a document,
\* start-namespace first (a resource map may precede it) and end-namespace
\* last, with whatever header, pool and cut.  The arguments: element paths,
\* attribute names and replacement values over the names "a" and "bc" of the
\* pools and the values "x", "xy", "xyz".
Framed(doc) ==
  /\ Len(doc) >= 2
  /\ doc[Len(doc)].tag = RES_XML_END_NAMESPACE_TYPE
  /\ \/ doc[1].tag = RES_XML_START_NAMESPACE_TYPE
     \/ /\ doc[1].tag = RES_XML_RESOURCE_MAP_TYPE
        /\ doc[2].tag = RES_XML_START_NAMESPACE_TYPE

Paths == {<<<<97>>>>, <<<<98, 99>>>>, <<<<97>>, <<98, 99>>>>}
AttrNames == {<<97>>, <<98, 99>>}
NewValues == {<<120>>, <<120, 121>>, <<120, 121, 122>>}

----------------------------------------------------------------------------
(* The state machine: one buffer, on which either readStrings is called    *)
(* once or traverseXml runs, one iteration of its loop per step.           *)

Mem == content \o slack

Init ==
  /\ input \in Inputs
  /\ content = BufferOf(input)
  /\ slack = input.slack
  /\ pc = "idle"
  /\ xmlChunkOffset = -1
  /\ currentXmlChunkOffset = 0
  /\ tag = 0
  /\ strings = <<>>
  /\ stringsRead = FALSE
  /\ events = <<>>
  /\ decoded = <<>>
  /\ tagReads = <<>>
  /\ cdataHandled = 0
  /\ hi = 0
  /\ poolOob = FALSE
  /\ mutation = NoMutation

\* A caller invokes BinaryXml::readStrings on the buffer.
ReadStringsCall ==
  /\ pc = "idle"
  /\ LET rs == ReadStrings(Mem) IN
       /\ pc' = IF rs.st = "ok" THEN "returned" ELSE rs.st
       /\ strings' = IF rs.st = "ok" THEN rs.strs ELSE strings
       /\ stringsRead' = (rs.st = "ok")
       /\ hi' = Max(hi, rs.hi)
  /\ UNCHANGED <<input, content, slack, xmlChunkOffset, currentXmlChunkOffset,
                 tag, events, decoded, tagReads, cdataHandled, poolOob,
                 mutation>>

\* Mutant of TraverseInvalid: the return after the Invalid element is
\* missing, so the loop is entered at offset zero.
TraverseInvalidNoReturn ==
  /\ pc = "idle"
  /\ LET o == GetXmlChunkOffset(Mem, Len(content)) IN
       /\ o.st = "ok"
       /\ o.value = 0
       /\ Fits(Mem, 0, 2)
       /\ xmlChunkOffset' = o.value
       /\ events' = Append(events, InvalidXmlTagElement("chunk offset is zero", 0))
       /\ hi' = Max(hi, o.hi)
       /\ tag' = U16At(Mem, 0)
       /\ currentXmlChunkOffset' = 2
       /\ tagReads' = Append(tagReads, 0)
       /\ pc' = "loop"
  /\ UNCHANGED <<input, content, slack, strings, stringsRead, decoded,
                 cdataHandled, poolOob, mutation>>

\* traverseXml, the early return: the chunk offset is zero.
TraverseInvalid ==
  /\ pc = "idle"
  /\ LET o == GetXmlChunkOffset(Mem, Len(content)) IN
       /\ o.st = "ok"
       /\ o.value = 0
       /\ xmlChunkOffset' = o.value
       /\ events' = Append(events, InvalidXmlTagElement("chunk offset is zero", 0))
       /\ hi' = Max(hi, o.hi)
       /\ pc' = "done"
  /\ UNCHANGED <<input, content, slack, currentXmlChunkOffset, tag, strings,
                 stringsRead, decoded, tagReads, cdataHandled, poolOob,
                 mutation>>

\* traverseXml before the loop: the first tag is read at the chunk offset and
\* the do-while body is entered without testing it.
TraverseBegin ==
  /\ pc = "idle"
  /\ LET o == GetXmlChunkOffset(Mem, Len(content)) IN
       /\ o.st # "ok" \/ o.value # 0
       /\ IF o.st # "ok"
            THEN /\ pc' = o.st
                 /\ hi' = Max(hi, o.hi)
                 /\ UNCHANGED <<xmlChunkOffset, currentXmlChunkOffset, tag, tagReads>>
          ELSE IF ~Fits(Mem, o.value, 2)
            THEN /\ pc' = "trap"
                 /\ hi' = Max(hi, Adv(o.value, 2))
                 /\ xmlChunkOffset' = o.value
                 /\ UNCHANGED <<currentXmlChunkOffset, tag, tagReads>>
          ELSE /\ pc' = "loop"
               /\ hi' = Max(hi, Max(o.hi, o.value + 2))
               /\ xmlChunkOffset' = o.value
               /\ tag' = U16At(Mem, o.value)
               /\ currentXmlChunkOffset' = o.value + 2
               /\ tagReads' = Append(tagReads, o.value)
  /\ UNCHANGED <<input, content, slack, strings, stringsRead, events, decoded,
                 cdataHandled, poolOob, mutation>>

\* The start of the do-while body: headerSize and chunkSize are read, then
\* readStrings() is called.
Preamble ==
  LET off == currentXmlChunkOffset IN
  IF ~Fits(Mem, off, 6)
    THEN [st |-> "trap", hi |-> FirstMiss(Mem, off, <<2, 6>>), off |-> off,
          chunkSize |-> 0, sread |-> FALSE, strs |-> <<>>]
  ELSE LET rs == ReadStrings(Mem) IN
    [st |-> rs.st, hi |-> Max(off + 6, rs.hi), off |-> off + 6,
     chunkSize |-> I32At(Mem, off + 2), sread |-> rs.st = "ok",
     strs |-> rs.strs]

\* The rest of the iteration: p is the preamble, r the result of the switch
\* case taken.  Its effects are applied, then the next tag is read and
\* tested against RES_XML_END_NAMESPACE_TYPE.
Commit(p, r) ==
  /\ strings' = IF p.sread THEN p.strs ELSE strings
  /\ stringsRead' = (stringsRead \/ p.sread)
  /\ events' = events \o r.evs
  /\ decoded' = decoded \o r.dec
  /\ cdataHandled' = cdataHandled + r.cdata
  /\ poolOob' = (poolOob \/ r.oob)
  /\ IF r.st # "ok"
       THEN /\ pc' = r.st
            /\ hi' = Max(hi, Max(p.hi, r.hi))
            /\ currentXmlChunkOffset' = r.off
            /\ UNCHANGED <<tag, tagReads>>
     ELSE IF ~Fits(Mem, r.off, 2)
       THEN /\ pc' = "trap"
            /\ hi' = Max(hi, Max(Max(p.hi, r.hi), Adv(r.off, 2)))
            /\ currentXmlChunkOffset' = r.off
            /\ UNCHANGED <<tag, tagReads>>
     ELSE /\ tag' = U16At(Mem, r.off)
          /\ currentXmlChunkOffset' = r.off + 2
          /\ tagReads' = Append(tagReads, r.off)
          /\ hi' = Max(hi, Max(Max(p.hi, r.hi), r.off + 2))
          /\ pc' = IF U16At(Mem, r.off) = RES_XML_END_NAMESPACE_TYPE
                   THEN "done" ELSE "loop"
  /\ UNCHANGED <<input, content, slack, xmlChunkOffset, mutation>>

\* the preamble failed: no case is taken
Stopped(p) == Result(p.st, p.hi, p.off, FALSE)

\* offset of the tag of the chunk being handled
At == currentXmlChunkOffset - 2

ChunkStartNamespace ==
  /\ pc = "loop"
  /\ tag = RES_XML_START_NAMESPACE_TYPE
  /\ LET p == Preamble IN
       Commit(p, IF p.st = "ok" THEN SkipChunk(p.off, p.chunkSize) ELSE Stopped(p))

ChunkResourceMap ==
  /\ pc = "loop"
  /\ tag = RES_XML_RESOURCE_MAP_TYPE
  /\ LET p == Preamble IN
       Commit(p, IF p.st = "ok" THEN SkipChunk(p.off, p.chunkSize) ELSE Stopped(p))

ChunkStartElement ==
  /\ pc = "loop"
  /\ tag = RES_XML_START_ELEMENT_TYPE
  /\ \E ub \in Ubs :
       LET p == Preamble IN
         Commit(p, IF p.st = "ok"
                   THEN HandleStartElementTag(Mem, p.strs, p.off, ub, At)
                   ELSE Stopped(p))

ChunkEndElement ==
  /\ pc = "loop"
  /\ tag = RES_XML_END_ELEMENT_TYPE
  /\ \E ub \in Ubs :
       LET p == Preamble IN
         Commit(p, IF p.st = "ok"
                   THEN HandleEndElementTag(Mem, p.strs, p.off, ub, At)
                   ELSE Stopped(p))

ChunkCData ==
  /\ pc = "loop"
  /\ tag = RES_XML_CDATA_TYPE
  /\ \E ub \in Ubs :
       LET p == Preamble IN
         Commit(p, IF p.st = "ok"
                   THEN HandleCDataTag(Mem, p.strs, p.off, ub, At)
                   ELSE Stopped(p))

ChunkUnknown ==
  /\ pc = "loop"
  /\ tag \notin {RES_XML_START_NAMESPACE_TYPE, RES_XML_RESOURCE_MAP_TYPE,
                 RES_XML_START_ELEMENT_TYPE, RES_XML_END_ELEMENT_TYPE,
                 RES_XML_CDATA_TYPE}
  /\ LET p == Preamble IN
       Commit(p, IF p.st = "ok" THEN UnknownTag(p.off) ELSE Stopped(p))

\* set_element_attribute(path, name, value), once the traversal with the
\* attribute setter has returned: the located slot is rewritten in content_.
SetElementAttribute ==
  /\ pc = "done"
  /\ Framed(input.doc)
  /\ \E path \in Paths, name \in AttrNames, value \in NewValues :
       LET r == SetAttribute(content, strings, events, path, name, value) IN
         /\ content' = r.content
         /\ mutation' = r.outcome
  /\ pc' = "set"
  /\ UNCHANGED <<input, slack, xmlChunkOffset, currentXmlChunkOffset, tag,
                 strings, stringsRead, events, decoded, tagReads, cdataHandled,
                 hi, poolOob>>

Next ==
  \/ ReadStringsCall
  \/ TraverseInvalid
  \/ TraverseBegin
  \/ ChunkStartNamespace
  \/ ChunkResourceMap
  \/ ChunkStartElement
  \/ ChunkEndElement
  \/ ChunkCData
  \/ ChunkUnknown
  \/ SetElementAttribute

Spec == Init /\ [][Next]_vars

----------------------------------------------------------------------------
(* Properties.                                                             *)

FullLen(inp) == Len(Encode(inp.hdr, inp.pool, inp.doc))

\* the buffer is whole and its header is the one the encoder writes, with
\* chunkSize naming the first chunk of the chunk list
PlainInput(inp) == inp.hdr = Header(inp.pool, 0) /\ inp.keep = FullLen(inp)

HasEndNs(doc) == \E k \in 1..Len(doc) : doc[k].tag = RES_XML_END_NAMESPACE_TYPE

FirstEndNsOffset(inp) ==
  LET k == CHOOSE j \in 1..Len(inp.doc) :
             /\ inp.doc[j].tag = RES_XML_END_NAMESPACE_TYPE
             /\ \A l \in 1..(j - 1) : inp.doc[l].tag # RES_XML_END_NAMESPACE_TYPE
  IN ChunkOffset(inp.doc, Base(inp.pool), k)

\* C1: traversal stops at end-namespace: no element is dispatched for a chunk
\* located at or after the first end-namespace chunk of the chunk stream,
\* also when that chunk is the first one at the XML chunk offset.
C1_StopsAtEndNamespace ==
  (PlainInput(input) /\ HasEndNs(input.doc)) =>
    \A i \in 1..Len(events) : events[i].at < FirstEndNsOffset(input)

\* C2: a string index read from a chunk indexes the decoded pool only when it
\* is smaller than the pool size; there is never an out-of-range access.
C2_IndexWithinPool == ~poolOob

\* C3: on a buffer whose header passes validation, every read of the
\* traversal ends within the buffer, and the traversal is not stopped by a
\* read outside memory.
C3_ReadsWithinBuffer ==
  xmlChunkOffset > 0 => (hi <= Len(content) /\ pc # "trap")

\* C4: when the XML chunk offset is zero exactly one element, the Invalid
\* element with reason "chunk offset is zero", is dispatched and traverseXml
\* returns without reading a chunk.
C4_ZeroOffsetInvalid ==
  xmlChunkOffset = 0 =>
    /\ pc \in {"done", "set"}
    /\ Len(events) = 1
    /\ events[1].kind = "Invalid"
    /\ events[1].reason = "chunk offset is zero"
    /\ tagReads = <<>>
    /\ currentXmlChunkOffset = 0
    /\ ~stringsRead
    /\ decoded = <<>>

C4_Witness ==
  /\ xmlChunkOffset = 0
  /\ pc = "done"
  /\ Len(events) = 1
  /\ input.hdr.xmlMagicNumber = XML_IDENTIFIER
  /\ input.hdr.stringTableIdentifier = XML_STRING_TABLE
  /\ input.hdr.chunkSize = 0
  /\ input.doc # <<>>

HeaderMagicsValid(inp) ==
  /\ inp.hdr.xmlMagicNumber = XML_IDENTIFIER
  /\ inp.hdr.stringTableIdentifier = XML_STRING_TABLE

\* C5 as claimed: getXmlChunkOffset returns 0 if a magic is wrong or
\* chunkSize exceeds the buffer length, and header.chunkSize otherwise.
C5_OffsetAsClaimed ==
  (xmlChunkOffset # -1 /\ Len(content) >= HeaderSize) =>
    xmlChunkOffset =
      IF \/ ~HeaderMagicsValid(input)
         \/ input.hdr.chunkSize < 0
         \/ input.hdr.chunkSize > Len(content)
      THEN 0 ELSE input.hdr.chunkSize

\* C5 amended: getXmlChunkOffset returns 0 if a magic is wrong or chunkSize
\* is greater than or equal to the buffer length, and header.chunkSize
\* otherwise.
C5_OffsetAmended ==
  (xmlChunkOffset # -1 /\ Len(content) >= HeaderSize) =>
    xmlChunkOffset =
      IF \/ ~HeaderMagicsValid(input)
         \/ input.hdr.chunkSize < 0
         \/ input.hdr.chunkSize >= Len(content)
      THEN 0 ELSE input.hdr.chunkSize

C5_Witness ==
  /\ xmlChunkOffset = 0
  /\ Len(content) >= HeaderSize
  /\ HeaderMagicsValid(input)
  /\ input.hdr.chunkSize = Len(content)

IsCData(e) == e.kind = "CData"

\* C6: every cdata chunk the traversal handles produces a CData element.
C6_CDataDispatched ==
  pc \in {"loop", "done"} => Len(SelectSeq(events, IsCData)) = cdataHandled


\* The type table of the attribute decoder, for a type tag t, a raw value
\* raw and a value-string index idx that is within the pool strs.
TableValue(t, raw, idx, strs) ==
  IF t = TYPE_NULL THEN (IF raw = 0 THEN StrUndefined ELSE StrEmpty)
  ELSE IF t = TYPE_REFERENCE THEN StrRes \o Hex8(raw)
  ELSE IF t = TYPE_ATTRIBUTE THEN StrAttr \o Hex8(raw)
  ELSE IF t = TYPE_DYNAMIC_REFERENCE THEN StrDyn \o Hex8(raw)
  ELSE IF t = TYPE_STRING THEN strs[idx + 1]
  ELSE IF t \in {TYPE_FLOAT, TYPE_DIMENSION, TYPE_FRACTION} THEN <<>>
  ELSE IF t = TYPE_INT_DEC THEN Dec(raw)
  ELSE IF t = TYPE_INT_HEX THEN Str0x \o Hex8(raw)
  ELSE IF t = TYPE_INT_BOOLEAN
    THEN (IF raw = -1 THEN StrTrue ELSE IF raw = 0 THEN StrFalse ELSE StrUnknown)
  ELSE StrUnknown

\* Renderings written out by hand: 0x1234ABCD and 0x80000000 in hex,
\* 0xFFFFFFF6 and 0x80000000 as signed decimals.
KnownAnswer(d) ==
  /\ (d.type = TYPE_INT_HEX /\ d.raw = 305441741) =>
       d.value = <<48, 120, 49, 50, 51, 52, 65, 66, 67, 68>>
  /\ (d.type = TYPE_REFERENCE /\ d.raw = -2147483647 - 1) =>
       d.value = <<64, 114, 101, 115, 47, 48, 120, 56, 48, 48, 48, 48, 48, 48, 48>>
  /\ (d.type = TYPE_INT_DEC /\ d.raw = -10) => d.value = <<45, 49, 48>>
  /\ (d.type = TYPE_INT_DEC /\ d.raw = -2147483647 - 1) =>
       d.value = <<45, 50, 49, 52, 55, 52, 56, 51, 54, 52, 56>>

\* C7: every decoded attribute value is the one the type table gives for its
\* type tag, raw value and value-string index.
C7_DecodeFollowsTable ==
  \A k \in 1..Len(decoded) :
    LET d == decoded[k] IN
      /\ (d.type # TYPE_STRING
          \/ (d.valueIndex >= 0 /\ d.valueIndex < Len(strings))) =>
           d.value = TableValue(d.type, d.raw, d.valueIndex, strings)
      /\ KnownAnswer(d)

C7_Witness ==
  /\ pc = "done"
  /\ \E k \in 1..Len(decoded) :
       /\ decoded[k].type = TYPE_INT_BOOLEAN
       /\ decoded[k].raw = 1
       /\ decoded[k].value = StrUnknown
       /\ \E i \in 1..Len(events) :
            /\ events[i].kind = "Start"
            /\ decoded[k].name \in DOMAIN events[i].attributes
            /\ events[i].attributes[decoded[k].name] = StrUnknown

\* the buffer is whole and holds the encoder's header and a UTF-8 pool
Utf8PoolInput(inp) ==
  /\ inp.pool.utf8
  /\ inp.hdr \in {Header(inp.pool, 0), Header(inp.pool, 8)}
  /\ inp.keep = FullLen(inp)

\* C8: in a UTF-8 pool the decoded string of an entry whose two length bytes
\* differ is the b payload bytes, b being the second length byte.
C8_Utf8LengthIsByteCount ==
  (stringsRead /\ Utf8PoolInput(input)) =>
    \A i \in 1..Len(input.pool.entries) :
      input.pool.entries[i].n16 # input.pool.entries[i].n8 =>
        /\ i <= Len(strings)
        /\ strings[i] = input.pool.entries[i].bytes

\* the memory readStrings read: the buffer before any write of the mutator
ReadMem == BufferOf(input) \o input.slack

\* C9: when readStrings returns on a buffer holding a whole header, then, if
\* both magics are valid, it returns header.numStrings strings, the i-th
\* being the string decoded at sizeof(header) + 4 numStrings plus the i-th
\* offset entry, and if a magic is wrong it returns no string.
C9_PoolIndexPreserving ==
  (stringsRead /\ Len(content) >= HeaderSize) =>
    IF HeaderMagicsValid(input)
    THEN LET n == input.hdr.numStrings
             utf8 == input.hdr.flags = RES_FLAG_UTF8
         IN /\ Len(strings) = n
            /\ \A i \in 1..n :
                 strings[i] =
                   DecodeAt(ReadMem, utf8,
                            HeaderSize + 4 * n
                              + I32At(ReadMem, HeaderSize + 4 * (i - 1))).str
    ELSE strings = <<>>

C9_Witness ==
  /\ pc = "returned"
  /\ input.pool = PoolUtf16
  /\ PlainInput(input)
  /\ strings = <<<<97>>, <<98, 99>>, <<>>, <<195, 169, 226, 130, 172>>>>

C9_WitnessBadMagic ==
  /\ pc = "returned"
  /\ ~HeaderMagicsValid(input)
  /\ input.pool = PoolUtf8
  /\ strings = <<>>

----------------------------------------------------------------------------
(* Well-formed inputs and balanced element streams.                        *)

InPool(i, n) == i >= 0 /\ i < n

ChunkSound(c, n) ==
  /\ c.size = 8 + Len(c.body)
  /\ \/ /\ c.tag = RES_XML_START_ELEMENT_TYPE
        /\ c.name = -1 \/ InPool(c.name, n)
        /\ I32At(c.body, 16) = XML_ATTRS_MARKER
        /\ I32At(c.body, 20) = Len(c.attrs)
        /\ Len(c.body) = 28 + 20 * Len(c.attrs)
        /\ \A k \in 1..Len(c.attrs) :
             /\ InPool(c.attrs[k].name, n)
             /\ c.attrs[k].type = TYPE_STRING => InPool(c.attrs[k].value, n)
     \/ /\ c.tag = RES_XML_END_ELEMENT_TYPE
        /\ c.name = -1 \/ InPool(c.name, n)
        /\ Len(c.body) = 16
     \/ /\ c.tag = RES_XML_CDATA_TYPE
        /\ InPool(c.name, n)
        /\ Len(c.body) = 20

\* the element chunks nest, every end-element naming the innermost open one
RECURSIVE Nests(_, _)
Nests(cs, stack) ==
  IF cs = <<>> THEN stack = <<>>
  ELSE LET c == Head(cs) IN
    IF c.tag = RES_XML_START_ELEMENT_TYPE
      THEN Nests(Tail(cs), <<c.name>> \o stack)
    ELSE IF c.tag = RES_XML_END_ELEMENT_TYPE
      THEN stack # <<>> /\ Head(stack) = c.name /\ Nests(Tail(cs), Tail(stack))
    ELSE Nests(Tail(cs), stack)

DocWellFormed(doc, n) ==
  LET first == IF doc # <<>> /\ doc[1].tag = RES_XML_RESOURCE_MAP_TYPE THEN 2 ELSE 1
  IN /\ Len(doc) >= first + 1
     /\ doc[first].tag = RES_XML_START_NAMESPACE_TYPE
     /\ doc[Len(doc)].tag = RES_XML_END_NAMESPACE_TYPE
     /\ \A k \in 1..first : doc[k].size = 8 + Len(doc[k].body)
     /\ \A k \in (first + 1)..(Len(doc) - 1) : ChunkSound(doc[k], n)
     /\ Nests(SubSeq(doc, first + 1, Len(doc) - 1), <<>>)

WellFormed(inp) ==
  /\ inp.hdr \in {Header(inp.pool, 0), Header(inp.pool, 8)}
  /\ inp.keep = FullLen(inp)
  /\ DocWellFormed(inp.doc, Len(inp.pool.entries))

\* the stack of open element names after the elements evs, innermost first;
\* ok is FALSE once an End arrives with no open element or another name
RECURSIVE Open(_, _)
Open(evs, acc) ==
  IF evs = <<>> \/ ~acc.ok THEN acc
  ELSE LET e == Head(evs) IN
    IF e.kind = "Start"
      THEN Open(Tail(evs), [acc EXCEPT !.stack = <<e.name>> \o acc.stack])
    ELSE IF e.kind = "End"
      THEN IF acc.stack # <<>> /\ Head(acc.stack) = e.name
             THEN Open(Tail(evs), [acc EXCEPT !.stack = Tail(acc.stack)])
             ELSE [acc EXCEPT !.ok = FALSE]
    ELSE Open(Tail(evs), acc)

OpenElements == Open(events, [ok |-> TRUE, stack |-> <<>>])

\* C10: on a well-formed input the End elements never outnumber the Start
\* elements, every End names the innermost open Start, and no element is
\* open when the end-namespace chunk ends the traversal.
C10_BalancedElements ==
  WellFormed(input) =>
    /\ OpenElements.ok
    /\ pc # "trap"
    /\ pc = "done" => OpenElements.stack = <<>>

C10_Witness ==
  /\ WellFormed(input)
  /\ pc = "done"
  /\ \E i \in 1..(Len(events) - 3) :
       /\ events[i].kind = "Start" /\ events[i].name = <<97>>
       /\ events[i + 1].kind = "Start" /\ events[i + 1].name = <<98, 99>>
       /\ events[i + 2].kind = "End" /\ events[i + 2].name = <<98, 99>>
       /\ events[i + 3].kind = "End" /\ events[i + 3].name = <<97>>

----------------------------------------------------------------------------
(* The cursor between chunks.                                              *)

\* the index in the chunk list of the chunk whose tag is at offset at, 0 if
\* no chunk starts there
ChunkAt(inp, at) ==
  LET ks == {k \in 1..Len(inp.doc) : ChunkOffset(inp.doc, Base(inp.pool), k) = at}
  IN IF ks = {} THEN 0 ELSE CHOOSE k \in ks : TRUE

\* the loop is at a chunk of the chunk list whose declared chunkSize is its
\* true size, of any kind but end-namespace (which ends the loop)
AtTrueChunk ==
  /\ pc = "loop"
  /\ PlainInput(input)
  /\ ChunkAt(input, At) # 0
  /\ LET c == input.doc[ChunkAt(input, At)] IN
       /\ c.size = 8 + Len(c.body)
       /\ c.tag # RES_XML_END_NAMESPACE_TYPE

\* C12: iteration invariant: when an iteration of the loop of traverseXml has
\* processed a chunk whose declared chunkSize is its true size (whatever its
\* tag, known or unknown, and whether or not its attribute marker matches)
\* and has read the next tag, that tag was read at the start offset of the
\* chunk plus its chunkSize, never from inside the chunk's body.
C12_CursorOnNextTag ==
  [][(AtTrueChunk /\ pc' \in {"loop", "done"})
       => currentXmlChunkOffset' - 2
            = At + input.doc[ChunkAt(input, At)].size]_vars

----------------------------------------------------------------------------
(* Attributes without a raw-value string.                                  *)

\* chunk c is an element or cdata chunk of true size whose string indices
\* are within a pool of n strings, except that the raw-value-string index of
\* an attribute may also be -1
SoundButValue(c, n) ==
  /\ c.size = 8 + Len(c.body)
  /\ \/ /\ c.tag = RES_XML_START_ELEMENT_TYPE
        /\ c.name = -1 \/ InPool(c.name, n)
        /\ I32At(c.body, 16) = XML_ATTRS_MARKER
        /\ I32At(c.body, 20) = Len(c.attrs)
        /\ Len(c.body) = 28 + 20 * Len(c.attrs)
        /\ \A k \in 1..Len(c.attrs) :
             /\ InPool(c.attrs[k].name, n)
             /\ c.attrs[k].value = -1 \/ InPool(c.attrs[k].value, n)
     \/ /\ c.tag = RES_XML_END_ELEMENT_TYPE
        /\ c.name = -1 \/ InPool(c.name, n)
        /\ Len(c.body) = 16
     \/ /\ c.tag = RES_XML_CDATA_TYPE
        /\ InPool(c.name, n)
        /\ Len(c.body) = 20

\* a whole buffer with the encoder's header whose chunk list holds namespace
\* and resource-map chunks of true size (end-namespace not first) and chunks
\* that are SoundButValue
NamesInPool(inp) ==
  /\ PlainInput(inp)
  /\ \A k \in 1..Len(inp.doc) :
       LET c == inp.doc[k] IN
         \/ /\ c.tag \in {RES_XML_START_NAMESPACE_TYPE, RES_XML_RESOURCE_MAP_TYPE}
            /\ c.size = 8 + Len(c.body)
         \/ /\ c.tag = RES_XML_END_NAMESPACE_TYPE
            /\ k > 1
            /\ c.size = 8 + Len(c.body)
         \/ SoundButValue(c, Len(inp.pool.entries))

\* C13: an attribute whose name index is within the pool and names a
\* non-empty string and whose raw-value-string index is -1 is rendered, for
\* every type tag, TYPE_STRING included, with the empty string as its value
\* and causes no out-of-range access to the pool; an attribute whose name
\* decodes to the empty string is not in the attribute map of the Start
\* element.
C13_MinusOneValueIsEmpty ==
  NamesInPool(input) =>
    /\ ~poolOob
    /\ \A j \in 1..Len(decoded) :
         decoded[j].valueIndex = -1 => decoded[j].value = <<>>
    /\ \A j \in 1..Len(events) :
         events[j].kind = "Start" => <<>> \notin DOMAIN events[j].attributes

----------------------------------------------------------------------------
(* The mutator.                                                            *)

\* set_element_attribute has located the attribute and its slot, and the
\* replacement encodes to another length than the slot's payload
LengthChanging ==
  /\ pc = "set"
  /\ mutation.located
  /\ mutation.slot
  /\ mutation.newLen # mutation.slotLen

C11_WitnessLonger ==
  /\ LengthChanging
  /\ mutation.newLen > mutation.slotLen
  /\ mutation.result = "UnsupportedMutation"

\* a replacement of the slot's length was written
C11_WitnessWritten ==
  /\ pc = "set"
  /\ mutation.result = "Ok"
  /\ content # BufferOf(input)
  /\ Len(content) = Len(BufferOf(input))

====
